---- MODULE Spec2Model ----
(***************************************************************************)
(* Flooreno invoice generator (src/invoice.py): one Streamlit session.     *)
(*                                                                         *)
(* Money is an integer count of hundredths of a cent (1.00 dollar =        *)
(* 10000), so that 13% of every whole-cent amount is exact.  A string that *)
(* the code trims is a sequence of one-character strings; a "%.2f" string  *)
(* is the integer number of cents it prints.  None is <<>>, a value v that *)
(* may be None is <<v>>.                                                   *)
(***************************************************************************)
EXTENDS Integers, Sequences, FiniteSets, TLC

VARIABLES
    invoice_items,  \* st.session_state.invoice_items: sequence of <<name, price, quantity>>
    message,        \* st.session_state.message
    temp_name,      \* st.session_state.temp_name   (pending item description)
    temp_price,     \* st.session_state.temp_price
    temp_qty,       \* st.session_state.temp_qty
    client_name,    \* value of the "Client Name" text input
    phone,          \* value of the "Phone Number" text input
    location,       \* value of the store location select box
    payment_type,   \* value of the "Payment Type" select box
    cash_input,     \* value of the "Cash Given ($)" number input (key cash_input)
    pc,             \* "run": a script run is queued; "idle": waiting for the user
    done,           \* the item operation the last step performed
    out             \* what the last script run computed and displayed

vars == <<invoice_items, message, temp_name, temp_price, temp_qty, client_name,
          phone, location, payment_type, cash_input, pc, done, out>>

\* ---------------------------------------------------------------- bounds
MaxItems == 2

NameInputs == { <<>>, <<" ">>, <<" ", "a", " ">>, <<"b">> }
PriceInputs == {0, 2500}
QtyInputs == {1, 2}
ClientInputs == {"", "Al"}
PhoneInputs == {"", "555"}
CashInputs == {0, 11200, 11300}
Locations == {"NY", "Sauga", "Dragona", "Ottawa"}
PaymentTypes == {"Cash", "Debit", "Credit"}

\* ---------------------------------------------------------------- constants
\* TAX_RATE = 0.13, held as a percentage
TAX_RATE == 13

None == <<>>
Some(v) == <<v>>

\* ---------------------------------------------------------------- str.strip
RECURSIVE lstrip(_)
lstrip(s) ==
    IF s = <<>> THEN <<>>
    ELSE IF Head(s) = " " THEN lstrip(Tail(s)) ELSE s

RECURSIVE rstrip(_)
rstrip(s) ==
    IF s = <<>> THEN <<>>
    ELSE IF s[Len(s)] = " " THEN rstrip(SubSeq(s, 1, Len(s) - 1)) ELSE s

strip(s) == rstrip(lstrip(s))

\* f"{x:.2f}": x rounded to whole cents.  The code holds x as a binary float,
\* which is seldom exactly half-way between two cents; an exact tie of the
\* decimal amount is rounded to even here.
Fmt2(x) ==
    LET q == x \div 100
        r == x % 100
    IN  IF r < 50 THEN q
        ELSE IF r > 50 THEN q + 1
        ELSE IF q % 2 = 0 THEN q ELSE q + 1

\* ---------------------------------------------------------------- calculate_totals
RECURSIVE sum_lines(_)
sum_lines(items) ==
    IF items = <<>> THEN 0
    ELSE Head(items)[2] * Head(items)[3] + sum_lines(Tail(items))

calculate_totals_no_tax(items) ==
    LET subtotal == sum_lines(items)
        tax == (subtotal * TAX_RATE) \div 100
    IN  <<subtotal, tax, subtotal>>

calculate_totals(items) ==
    LET subtotal == sum_lines(items)
        tax == (subtotal * TAX_RATE) \div 100
        total == subtotal + tax
    IN  <<subtotal, tax, total>>

\* ---------------------------------------------------------------- add_item_and_reset
NoMessage == [type |-> "None", text |-> None]

ErrorMessage ==
    [type |-> "error",
     text |-> <<"Please ensure item name, price, and quantity are valid.">>]

SuccessMessage(name, price, quantity) ==
    [type |-> "success", text |-> <<"Added", quantity, name, Fmt2(price)>>]

\* the callback without its three reset assignments
add_item_no_reset(items, tname, tprice, tqty) ==
    LET name == strip(tname)
    IN  IF name # <<>> /\ tprice > 0 /\ tqty > 0
        THEN [invoice_items |-> Append(items, <<name, tprice, tqty>>),
              message |-> SuccessMessage(name, tprice, tqty),
              temp_name |-> tname, temp_price |-> tprice, temp_qty |-> tqty]
        ELSE [invoice_items |-> items, message |-> ErrorMessage,
              temp_name |-> tname, temp_price |-> tprice, temp_qty |-> tqty]

\* the callback with "name and" dropped from its condition
add_item_no_name_check(items, tname, tprice, tqty) ==
    LET name == strip(tname)
    IN  IF tprice > 0 /\ tqty > 0
        THEN [invoice_items |-> Append(items, <<name, tprice, tqty>>),
              message |-> SuccessMessage(name, tprice, tqty),
              temp_name |-> <<>>, temp_price |-> 0, temp_qty |-> 1]
        ELSE [invoice_items |-> items, message |-> ErrorMessage,
              temp_name |-> tname, temp_price |-> tprice, temp_qty |-> tqty]

\* the session state after the callback, from the session state before it
add_item_and_reset(items, tname, tprice, tqty) ==
    LET name == strip(tname)
    IN  IF name # <<>> /\ tprice > 0 /\ tqty > 0
        THEN [invoice_items |-> Append(items, <<name, tprice, tqty>>),
              message |-> SuccessMessage(name, tprice, tqty),
              temp_name |-> <<>>, temp_price |-> 0, temp_qty |-> 1]
        ELSE [invoice_items |-> items, message |-> ErrorMessage,
              temp_name |-> tname, temp_price |-> tprice, temp_qty |-> tqty]

\* ---------------------------------------------------------------- create_invoice_pdf
\* A table cell.  kind "para": Paragraph(s); "desc": Paragraph(item), d the
\* description; "money": Paragraph(f"{v:.2f}"), v in cents; "int":
\* Paragraph(str(v)); "blank": "".
Para(s, bold) == [kind |-> "para", s |-> s, d |-> <<>>, v |-> 0, bold |-> bold]
Desc(d) == [kind |-> "desc", s |-> "", d |-> d, v |-> 0, bold |-> FALSE]
Money(x, bold) == [kind |-> "money", s |-> "", d |-> <<>>, v |-> Fmt2(x), bold |-> bold]
IntCell(q) == [kind |-> "int", s |-> "", d |-> <<>>, v |-> q, bold |-> FALSE]
Blank == [kind |-> "blank", s |-> "", d |-> <<>>, v |-> 0, bold |-> FALSE]

header_row ==
    << Para("Item Description", TRUE), Para("Unit Price", TRUE), Para("Qty", TRUE),
       Para("SubTotal", TRUE), Para("Total", TRUE) >>

item_row(item) ==
    LET price == item[2]
        quantity == item[3]
        line_total_pre_tax == price * quantity
        line_total_post_tax == (line_total_pre_tax * (100 + TAX_RATE)) \div 100
    IN  << Desc(item[1]), Money(price, FALSE), IntCell(quantity),
           Money(line_total_pre_tax, FALSE), Money(line_total_post_tax, FALSE) >>

RECURSIVE item_rows(_)
item_rows(items) ==
    IF items = <<>> THEN <<>>
    ELSE <<item_row(Head(items))>> \o item_rows(Tail(items))

summary_rows(subtotal, tax, total) ==
    << <<Blank, Blank, Blank, Para("Subtotal", FALSE), Money(subtotal, FALSE)>>,
       <<Blank, Blank, Blank, Para("Tax (" \o ToString(TAX_RATE) \o "%)", FALSE),
         Money(tax, FALSE)>>,
       <<Blank, Blank, Blank, Para("TOTAL", TRUE), Money(total, TRUE)>> >>

\* the rows with the items in reverse order
table_data_reversed(items, subtotal, tax, total) ==
    LET rows == item_rows(items)
    IN  <<header_row>>
        \o [k \in 1..Len(rows) |-> rows[Len(rows) + 1 - k]]
        \o summary_rows(subtotal, tax, total)

\* data, as passed to Table(...)
table_data(items, subtotal, tax, total) ==
    <<header_row>> \o item_rows(items) \o summary_rows(subtotal, tax, total)

\* the grid ended one row early
grid_end_row_short(items) == Len(items) - 1

grid_end_row(items) == Len(items)

Cmd(cmd, c0, r0, c1, r1, arg) ==
    [cmd |-> cmd, c0 |-> c0, r0 |-> r0, c1 |-> c1, r1 |-> r1, arg |-> arg]

\* the style with the rule line drawn above the tax row
table_style_line_above_tax(items) ==
    << Cmd("FONTSIZE", 0, 0, -1, -1, "8"),
       Cmd("BACKGROUND", 0, 0, -1, 0, "lightgrey"),
       Cmd("TEXTCOLOR", 0, 0, -1, 0, "whitesmoke"),
       Cmd("FONTNAME", 0, 0, -1, 0, "Helvetica-Bold"),
       Cmd("ALIGN", 1, 1, -1, -1, "RIGHT"),
       Cmd("VALIGN", 0, 0, -1, -1, "TOP"),
       Cmd("INNERGRID", 0, 0, -1, grid_end_row(items), "0.25 black"),
       Cmd("BOX", 0, 0, -1, grid_end_row(items), "0.25 black"),
       Cmd("SPAN", 0, -3, 2, -3, ""),
       Cmd("SPAN", 0, -2, 2, -2, ""),
       Cmd("SPAN", 0, -1, 2, -1, ""),
       Cmd("LINEABOVE", 3, -2, 4, -2, "0.5 black"),
       Cmd("FONTNAME", 3, -1, 4, -1, "Helvetica-Bold"),
       Cmd("BACKGROUND", 3, -1, 4, -1, "lightgrey") >>

\* the commands given to TableStyle, in order
table_style(items) ==
    << Cmd("FONTSIZE", 0, 0, -1, -1, "8"),
       Cmd("BACKGROUND", 0, 0, -1, 0, "lightgrey"),
       Cmd("TEXTCOLOR", 0, 0, -1, 0, "whitesmoke"),
       Cmd("FONTNAME", 0, 0, -1, 0, "Helvetica-Bold"),
       Cmd("ALIGN", 1, 1, -1, -1, "RIGHT"),
       Cmd("VALIGN", 0, 0, -1, -1, "TOP"),
       Cmd("INNERGRID", 0, 0, -1, grid_end_row(items), "0.25 black"),
       Cmd("BOX", 0, 0, -1, grid_end_row(items), "0.25 black"),
       Cmd("SPAN", 0, -3, 2, -3, ""),
       Cmd("SPAN", 0, -2, 2, -2, ""),
       Cmd("SPAN", 0, -1, 2, -1, ""),
       Cmd("LINEABOVE", 3, -3, 4, -3, "0.5 black"),
       Cmd("FONTNAME", 3, -1, 4, -1, "Helvetica-Bold"),
       Cmd("BACKGROUND", 3, -1, 4, -1, "lightgrey") >>

\* the "Cash Given" and "Change" lines of the client block
cash_lines(ptype, cash_given, change) ==
    IF ptype = "Cash" /\ cash_given # None /\ change # None
    THEN <<Fmt2(cash_given[1]), Fmt2(change[1])>>
    ELSE <<>>

\* The document, by its content; the date line (the clock at render time) is
\* left out.
create_invoice_pdf(cname, ph, items, ptype, subtotal, tax, total, loc, cash_given, change) ==
    [title |-> "Flooreno Store Invoice",
     location |-> loc,
     client_name |-> cname,
     phone |-> ph,
     payment_type |-> ptype,
     cash_lines |-> cash_lines(ptype, cash_given, change),
     data |-> table_data(items, subtotal, tax, total),
     style |-> table_style(items),
     footer |-> "Thank you for shopping at Flooreno!"]

\* ---------------------------------------------------------------- the script
\* What the user did to the editable list before a run: nothing, new values
\* in the price and quantity inputs of row i (keys price_i, qty_i, i counted
\* from 0), or a click on the remove button of row i.
NoEvent == [kind |-> "none", i |-> 0, price |-> 0, quantity |-> 0]
EditEvent(i, p, q) == [kind |-> "edit", i |-> i, price |-> p, quantity |-> q]
RemoveEvent(i) == [kind |-> "remove", i |-> i, price |-> 0, quantity |-> 0]

\* number_input(value=price, key=f"price_{i}"): the item's price unless the
\* user has put another value in
new_price(i, price, ev) == IF ev.kind = "edit" /\ ev.i = i THEN ev.price ELSE price

new_quantity(i, quantity, ev) ==
    IF ev.kind = "edit" /\ ev.i = i THEN ev.quantity ELSE quantity

\* button(key=f"remove_{i}"): true in the run its click starts
remove_clicked(i, ev) == ev.kind = "remove" /\ ev.i = i

\* the loop that keeps none of the rows after a clicked one
RECURSIVE keep_loop_truncating(_, _, _)
keep_loop_truncating(items, ev, i) ==
    IF i >= Len(items) THEN <<>>
    ELSE LET item == items[i + 1]
         IN  IF remove_clicked(i, ev) THEN <<>>
             ELSE <<<<item[1], new_price(i, item[2], ev), new_quantity(i, item[3], ev)>>>>
                  \o keep_loop_truncating(items, ev, i + 1)

items_to_keep_truncating(items, ev) == keep_loop_truncating(items, ev, 0)

\* the editable list loop, from row i on
RECURSIVE keep_loop(_, _, _)
keep_loop(items, ev, i) ==
    IF i >= Len(items) THEN <<>>
    ELSE LET item == items[i + 1]
             rest == keep_loop(items, ev, i + 1)
         IN  IF remove_clicked(i, ev) THEN rest
             ELSE <<<<item[1], new_price(i, item[2], ev), new_quantity(i, item[3], ev)>>>>
                  \o rest

items_to_keep(items, ev) == keep_loop(items, ev, 0)

\* st.rerun() left out of the elif branch
st_rerun_on_removal_only(items, keep) == Len(keep) # Len(items)

\* whether the run reaches one of the two st.rerun() calls
st_rerun(items, keep) == Len(keep) # Len(items) \/ items # keep

\* cash_given: the cash input, rendered for Cash only
cash_given_of(ptype, cash) == IF ptype = "Cash" THEN Some(cash) ELSE None

change_of(ptype, cash, total) ==
    IF ptype = "Cash" /\ total > 0 /\ cash >= total THEN Some(cash - total) ELSE None

cash_error_message(ptype, cash, total) == ptype = "Cash" /\ total > 0 /\ ~(cash >= total)

RequiredFieldsError == "Client Name, Phone, and at least one item are required."
InsufficientCashError == "Insufficient cash provided for the total amount."

error_messages(cname, ph, items, ptype, cash_given, total) ==
    (IF cname = "" \/ ph = "" \/ items = <<>> THEN <<RequiredFieldsError>> ELSE <<>>)
    \o (IF ptype = "Cash" /\ total > 0 /\ (cash_given = None \/ cash_given[1] < total)
        THEN <<InsufficientCashError>> ELSE <<>>)

\* validation 2 with <= for <
can_generate_pdf_strict(cname, ph, items, ptype, cash_given, total) ==
    /\ ~(cname = "" \/ ph = "" \/ items = <<>>)
    /\ ~(ptype = "Cash" /\ total > 0 /\ (cash_given = None \/ cash_given[1] <= total))

can_generate_pdf(cname, ph, items, ptype, cash_given, total) ==
    /\ ~(cname = "" \/ ph = "" \/ items = <<>>)
    /\ ~(ptype = "Cash" /\ total > 0 /\ (cash_given = None \/ cash_given[1] < total))

\* a run stopped by st.rerun(): nothing below the item list is displayed
Stopped(shown) ==
    [reached |-> FALSE, shown |-> shown, subtotal |-> 0, tax |-> 0, total |-> 0,
     cash_given |-> None, change |-> None, cash_warning |-> FALSE,
     error_messages |-> <<>>, can_generate_pdf |-> FALSE,
     call |-> None, download |-> FALSE]

\* the session's item list after the editable list loop and the assignments
\* that follow it
items_after_loop(items, keep) ==
    IF items # <<>> /\ (Len(keep) # Len(items) \/ items # keep) THEN keep ELSE items

\* One run of the script, top to bottom: the session state and widget values
\* it starts from, the session state it leaves, whether it ends in
\* st.rerun(), and what it displays.
script_run(items, msg, cname, ph, loc, ptype, cash, ev) ==
    LET shown == msg.type
        msg1 == IF msg.type \in {"success", "error"} THEN NoMessage ELSE msg
        totals == calculate_totals(items)
        subtotal == totals[1]
        tax == totals[2]
        total == totals[3]
        keep == items_to_keep(items, ev)
        items1 == items_after_loop(items, keep)
    IN  IF items # <<>> /\ st_rerun(items, keep)
        THEN [invoice_items |-> items1, message |-> msg1, rerun |-> TRUE,
              out |-> Stopped(shown)]
        ELSE LET cash_given == cash_given_of(ptype, cash)
                 change == change_of(ptype, cash, total)
                 ok == can_generate_pdf(cname, ph, items1, ptype, cash_given, total)
             IN  [invoice_items |-> items1, message |-> msg1, rerun |-> FALSE,
                  out |->
                    [reached |-> TRUE, shown |-> shown,
                     subtotal |-> subtotal, tax |-> tax, total |-> total,
                     cash_given |-> cash_given, change |-> change,
                     cash_warning |-> cash_error_message(ptype, cash, total),
                     error_messages |->
                        error_messages(cname, ph, items1, ptype, cash_given, total),
                     can_generate_pdf |-> ok,
                     call |-> IF ok
                              THEN Some([client_name |-> cname, phone |-> ph,
                                         items |-> items1, payment_type |-> ptype,
                                         subtotal |-> subtotal, tax |-> tax,
                                         total |-> total, location |-> loc,
                                         cash_given |-> cash_given, change |-> change])
                              ELSE None,
                     download |-> ok]]

\* ---------------------------------------------------------------- steps
NoOp == [kind |-> "none", i |-> 0]

\* The script runs with the widget values given; the pending item inputs are
\* left to the step that uses this.
Script(cname, ph, loc, ptype, cash, ev) ==
    LET r == script_run(invoice_items, message, cname, ph, loc, ptype, cash, ev)
    IN  /\ invoice_items' = r.invoice_items
        /\ message' = r.message
        /\ client_name' = cname
        /\ phone' = ph
        /\ location' = loc
        /\ payment_type' = ptype
        /\ cash_input' = cash
        /\ pc' = IF r.rerun THEN "run" ELSE "idle"
        /\ done' = [kind |-> ev.kind, i |-> ev.i]
        /\ out' = r.out

\* the run queued by session start, by the Add callback or by st.rerun()
RunQueued ==
    /\ pc = "run"
    /\ Script(client_name, phone, location, payment_type, cash_input, NoEvent)
    /\ UNCHANGED <<temp_name, temp_price, temp_qty>>

SetClientName(v) ==
    /\ pc = "idle" /\ v # client_name
    /\ Script(v, phone, location, payment_type, cash_input, NoEvent)
    /\ UNCHANGED <<temp_name, temp_price, temp_qty>>

SetPhone(v) ==
    /\ pc = "idle" /\ v # phone
    /\ Script(client_name, v, location, payment_type, cash_input, NoEvent)
    /\ UNCHANGED <<temp_name, temp_price, temp_qty>>

SetLocation(v) ==
    /\ pc = "idle" /\ v # location
    /\ Script(client_name, phone, v, payment_type, cash_input, NoEvent)
    /\ UNCHANGED <<temp_name, temp_price, temp_qty>>

\* The cash input is rendered for Cash only; a widget that a finished run did
\* not render starts again from its default, 0.0.
SetPaymentType(v) ==
    /\ pc = "idle" /\ v # payment_type
    /\ Script(client_name, phone, location, v, IF v = "Cash" THEN cash_input ELSE 0,
              NoEvent)
    /\ UNCHANGED <<temp_name, temp_price, temp_qty>>

SetCashGiven(v) ==
    /\ pc = "idle" /\ payment_type = "Cash" /\ v # cash_input
    /\ Script(client_name, phone, location, payment_type, v, NoEvent)
    /\ UNCHANGED <<temp_name, temp_price, temp_qty>>

SetTempName(v) ==
    /\ pc = "idle" /\ v # temp_name
    /\ temp_name' = v
    /\ Script(client_name, phone, location, payment_type, cash_input, NoEvent)
    /\ UNCHANGED <<temp_price, temp_qty>>

SetTempPrice(v) ==
    /\ pc = "idle" /\ v # temp_price
    /\ temp_price' = v
    /\ Script(client_name, phone, location, payment_type, cash_input, NoEvent)
    /\ UNCHANGED <<temp_name, temp_qty>>

SetTempQty(v) ==
    /\ pc = "idle" /\ v # temp_qty
    /\ temp_qty' = v
    /\ Script(client_name, phone, location, payment_type, cash_input, NoEvent)
    /\ UNCHANGED <<temp_name, temp_price>>

\* on_click=add_item_and_reset, with the pending inputs tname, tprice, tqty:
\* the callback runs, and the script run that follows it is queued
Callback(tname, tprice, tqty) ==
    LET r == add_item_and_reset(invoice_items, tname, tprice, tqty)
    IN  /\ Len(r.invoice_items) <= MaxItems
        /\ invoice_items' = r.invoice_items
        /\ message' = r.message
        /\ temp_name' = r.temp_name
        /\ temp_price' = r.temp_price
        /\ temp_qty' = r.temp_qty
        /\ pc' = "run"
        /\ done' = [kind |-> "add", i |-> 0]
        /\ UNCHANGED <<client_name, phone, location, payment_type, cash_input, out>>

ClickAdd ==
    /\ pc = "idle"
    /\ Callback(temp_name, temp_price, temp_qty)

\* the three pending inputs filled in with a valid item and Add clicked
SubmitItem(n, p, q) ==
    /\ pc = "idle"
    /\ strip(n) # <<>> /\ p > 0 /\ q > 0
    /\ Callback(n, p, q)

EditRow(i, p, q) ==
    /\ pc = "idle"
    /\ i < Len(invoice_items)
    /\ <<p, q>> # <<invoice_items[i + 1][2], invoice_items[i + 1][3]>>
    /\ Script(client_name, phone, location, payment_type, cash_input, EditEvent(i, p, q))
    /\ UNCHANGED <<temp_name, temp_price, temp_qty>>

ClickRemove(i) ==
    /\ pc = "idle"
    /\ i < Len(invoice_items)
    /\ Script(client_name, phone, location, payment_type, cash_input, RemoveEvent(i))
    /\ UNCHANGED <<temp_name, temp_price, temp_qty>>

\* ---------------------------------------------------------------- specifications
\* session start: the defaults of lines 144-150 and of the widgets, and the
\* first run queued
Init ==
    /\ invoice_items = <<>>
    /\ message = NoMessage
    /\ temp_name = <<>>
    /\ temp_price = 0
    /\ temp_qty = 1
    /\ client_name = ""
    /\ phone = ""
    /\ location = "NY"
    /\ payment_type = "Cash"
    /\ cash_input = 0
    /\ pc = "run"
    /\ done = NoOp
    /\ out = Stopped("None")

ListSteps ==
    \/ \E i \in 0..(MaxItems - 1), p \in PriceInputs, q \in QtyInputs : EditRow(i, p, q)
    \/ \E i \in 0..(MaxItems - 1) : ClickRemove(i)

\* the whole session, an item entered in one step
Next ==
    \/ RunQueued
    \/ \E v \in ClientInputs : SetClientName(v)
    \/ \E v \in PhoneInputs : SetPhone(v)
    \/ \E v \in Locations : SetLocation(v)
    \/ \E v \in PaymentTypes : SetPaymentType(v)
    \/ \E v \in CashInputs : SetCashGiven(v)
    \/ \E n \in NameInputs, p \in PriceInputs, q \in QtyInputs : SubmitItem(n, p, q)
    \/ ListSteps

Spec == Init /\ [][Next]_vars

\* item entry widget by widget, the customer and payment widgets untouched
NextItems ==
    \/ RunQueued
    \/ \E v \in NameInputs : SetTempName(v)
    \/ \E v \in PriceInputs : SetTempPrice(v)
    \/ \E v \in QtyInputs : SetTempQty(v)
    \/ ClickAdd
    \/ ListSteps

SpecItems == Init /\ [][NextItems]_vars

\* the buffer create_invoice_pdf returned in the last run, if it was called
pdf ==
    IF out.call = None THEN None
    ELSE LET c == out.call[1]
         IN  Some(create_invoice_pdf(c.client_name, c.phone, c.items, c.payment_type,
                                     c.subtotal, c.tax, c.total, c.location,
                                     c.cash_given, c.change))

\* ---------------------------------------------------------------- claims
Range(f) == {f[k] : k \in DOMAIN f}

\* the sum of price * quantity over the first n items
RECURSIVE LineSum(_, _)
LineSum(items, n) ==
    IF n = 0 THEN 0 ELSE LineSum(items, n - 1) + items[n][2] * items[n][3]

\* C1: the totals a run computes from the session's item list are
\* subtotal = sum of unitPrice * quantity, tax = 13% of the subtotal and
\* total = subtotal + tax; for the empty list all three are zero.
TheoremC1 ==
    pc = "idle" =>
        /\ out.subtotal = LineSum(invoice_items, Len(invoice_items))
        /\ out.tax * 100 = out.subtotal * 13
        /\ out.total = out.subtotal + out.tax
        /\ invoice_items = <<>> => out.subtotal = 0 /\ out.tax = 0 /\ out.total = 0

WitnessC1 ==
    /\ pc = "idle"
    /\ Len(invoice_items) = 2
    /\ invoice_items[1] # invoice_items[2]
    /\ out.tax > 0

\* the validation gate as the specification states it, over the widget values
\* and the session's item list
GateOpen ==
    /\ client_name # ""
    /\ phone # ""
    /\ invoice_items # <<>>
    /\ (payment_type = "Cash" /\ out.total > 0) => cash_input >= out.total

CexC3 ==
    (pc = "idle" /\ pdf # None) =>
        IF payment_type = "Cash"
        THEN /\ cash_input - out.total >= 0
             /\ pdf[1].cash_lines = <<Fmt2(cash_input), Fmt2(cash_input - out.total)>>
        ELSE pdf[1].cash_lines = <<>>

\* C4: the table of a document generated for N items has N + 4 rows: the
\* header row, row k built from item k (description, unit price, quantity,
\* unitPrice * quantity, and that times 1.13), then Subtotal, Tax (13%) and
\* TOTAL with the subtotal, tax and total passed in.
TheoremC4 ==
    pdf # None =>
        LET c == out.call[1]
            data == pdf[1].data
            N == Len(c.items)
        IN  /\ Len(data) = N + 4
            /\ \A r \in 1..Len(data) : Len(data[r]) = 5
            /\ [j \in 1..5 |-> data[1][j].s] =
                 <<"Item Description", "Unit Price", "Qty", "SubTotal", "Total">>
            /\ \A j \in 1..5 : data[1][j].kind = "para"
            /\ \A k \in 1..N :
                 LET item == c.items[k]
                     pre == item[2] * item[3]
                 IN  data[k + 1] =
                        << Desc(item[1]), Money(item[2], FALSE), IntCell(item[3]),
                           Money(pre, FALSE), Money((pre * 113) \div 100, FALSE) >>
            /\ \A r \in (N + 2)..(N + 4) : \A j \in 1..3 : data[r][j] = Blank
            /\ data[N + 2][4].s = "Subtotal" /\ data[N + 2][5] = Money(c.subtotal, FALSE)
            /\ data[N + 3][4].s = "Tax (13%)" /\ data[N + 3][5] = Money(c.tax, FALSE)
            /\ data[N + 4][4].s = "TOTAL" /\ data[N + 4][5] = Money(c.total, TRUE)

WitnessC4 ==
    /\ pdf # None
    /\ Len(out.call[1].items) = 2
    /\ out.call[1].items[1] # out.call[1].items[2]
    /\ pdf[1].data[2] # pdf[1].data[3]

\* Table(data, colWidths=[220, 60, 40, 70, 80]): five columns
NumCols == 5

\* a negative row or column index of a style command counts from the end
Resolve(idx, n) == IF idx < 0 THEN n + idx ELSE idx

\* the cells <<row, column>> a style command covers in a table of nrows rows
CellsOf(c, nrows) ==
    (Resolve(c.r0, nrows)..Resolve(c.r1, nrows))
        \X (Resolve(c.c0, NumCols)..Resolve(c.c1, NumCols))

\* the cells covered by the commands of the generated table's style that
\* satisfy P
Covered(P(_)) ==
    LET style == pdf[1].style
        nrows == Len(pdf[1].data)
    IN  UNION { CellsOf(style[k], nrows) : k \in {j \in DOMAIN style : P(style[j])} }

IsLineAbove(c) == c.cmd = "LINEABOVE"
IsBold(c) == c.cmd = "FONTNAME" /\ c.arg = "Helvetica-Bold"
IsBackground(c) == c.cmd = "BACKGROUND"
IsInnerGrid(c) == c.cmd = "INNERGRID"
IsBox(c) == c.cmd = "BOX"

\* the label and value cells of table row r
LabelAndValue(r) == {<<r, 3>>, <<r, 4>>}

\* C5 as stated: the rule line is drawn above the TOTAL row (row N + 3), and
\* bold font and background are on its label and value cells.
CexC5 ==
    pdf # None =>
        LET N == Len(out.call[1].items)
        IN  /\ Covered(IsLineAbove) = LabelAndValue(N + 3)
            /\ LabelAndValue(N + 3) \subseteq Covered(IsBold)
            /\ LabelAndValue(N + 3) \subseteq Covered(IsBackground)

\* C5, amended: the rule line is drawn above the label and value cells of the
\* Subtotal row (row N + 1), the first summary row; bold font and background
\* are on the label and value cells of the TOTAL row (row N + 3) and on no
\* cell of the Subtotal and Tax rows.
TheoremC5 ==
    pdf # None =>
        LET N == Len(out.call[1].items)
            others == ((N + 1)..(N + 2)) \X (0..(NumCols - 1))
        IN  /\ Covered(IsLineAbove) = LabelAndValue(N + 1)
            /\ LabelAndValue(N + 3) \subseteq Covered(IsBold)
            /\ LabelAndValue(N + 3) \subseteq Covered(IsBackground)
            /\ Covered(IsBold) \cap others = {}
            /\ Covered(IsBackground) \cap others = {}
            /\ pdf[1].data[N + 2][4].s = "Subtotal"
            /\ pdf[1].data[N + 4][4].s = "TOTAL"

WitnessC5 ==
    /\ pdf # None
    /\ Len(out.call[1].items) = 2
    /\ Covered(IsLineAbove) # {}
    /\ out.call[1].payment_type = "Credit"

\* C6 as stated: border and interior grid cover rows 0 through N + 3.
CexC6 ==
    pdf # None =>
        LET N == Len(out.call[1].items)
            region == (0..(N + 3)) \X (0..(NumCols - 1))
        IN  /\ Covered(IsInnerGrid) = region
            /\ Covered(IsBox) = region

\* C6, amended: border and interior grid cover one region, the header row and
\* the N item rows (rows 0 through N), all five columns; the three summary
\* rows are outside it.
TheoremC6 ==
    pdf # None =>
        LET N == Len(out.call[1].items)
            region == (0..N) \X (0..(NumCols - 1))
        IN  /\ Covered(IsInnerGrid) = region
            /\ Covered(IsBox) = region

WitnessC6 ==
    /\ pdf # None
    /\ Len(out.call[1].items) = 2
    /\ Covered(IsBox) # {}
    /\ out.call[1].payment_type = "Debit"

\* C9: the totals passed to create_invoice_pdf, and those the cash check
\* uses, are calculate_totals of the item list of the same run; a run in
\* which an edit or a removal changes the list ends in st.rerun() before
\* validation and generation.
TheoremC9 ==
    /\ out.call # None =>
         LET c == out.call[1]
         IN  <<c.subtotal, c.tax, c.total>> = calculate_totals(c.items)
    /\ pc = "idle" =>
         /\ <<out.subtotal, out.tax, out.total>> = calculate_totals(invoice_items)
         /\ out.call # None => out.call[1].items = invoice_items
    /\ done.kind \in {"edit", "remove"} =>
         pc = "run" /\ ~out.reached /\ out.call = None /\ ~out.download

\* an edit of a list whose customer fields and payment type would let the
\* document be generated
WitnessC9 ==
    /\ done.kind = "edit"
    /\ pc = "run"
    /\ client_name # "" /\ phone # ""
    /\ payment_type = "Debit"
    /\ Len(invoice_items) = 2

\* C7: an Add click whose pending name is empty after trimming, or whose
\* price or quantity is <= 0, leaves the item list and the pending inputs
\* unchanged and sets an error message; any other Add click appends
\* <<trimmed name, price, quantity>> to the list, sets a success message and
\* resets the pending inputs to ("", 0.0, 1).
TheoremC7 ==
    [][ done'.kind = "add" =>
          LET name == strip(temp_name)
          IN  IF name = <<>> \/ temp_price <= 0 \/ temp_qty <= 0
              THEN /\ invoice_items' = invoice_items
                   /\ <<temp_name', temp_price', temp_qty'>> =
                        <<temp_name, temp_price, temp_qty>>
                   /\ message'.type = "error"
              ELSE /\ Len(invoice_items') = Len(invoice_items) + 1
                   /\ SubSeq(invoice_items', 1, Len(invoice_items)) = invoice_items
                   /\ invoice_items'[Len(invoice_items')] = <<name, temp_price, temp_qty>>
                   /\ " " \notin {name[1], name[Len(name)]}
                   /\ message'.type = "success"
                   /\ <<temp_name', temp_price', temp_qty'>> = <<<<>>, 0, 1>>
      ]_vars

\* a whitespace-only name with a valid price, rejected
WitnessC7 ==
    /\ done.kind = "add"
    /\ message.type = "error"
    /\ temp_name = <<" ">>
    /\ temp_price > 0
    /\ invoice_items # <<>>

\* C8: every item of the session's list, the list passed to calculate_totals
\* and to create_invoice_pdf, has a non-empty description, a unit price >= 0
\* and an integer quantity >= 1.
TheoremC8 ==
    \A k \in 1..Len(invoice_items) :
        /\ invoice_items[k][1] # <<>>
        /\ invoice_items[k][2] >= 0
        /\ invoice_items[k][3] \in Int /\ invoice_items[k][3] >= 1

\* after an edit: a list of two items, one of them edited down to price 0
WitnessC8 ==
    /\ done.kind = "edit"
    /\ Len(invoice_items) = 2
    /\ invoice_items[done.i + 1][2] = 0

====
